---- MODULE Spec2Model ----
(***************************************************************************)
(* State-machine model of the owning, cloning handles of this repository:  *)
(* cloned_ptr (cloned_ptr.h) and isocpp_p0201::polymorphic_value           *)
(* (polymorphic_value.h), with the class hierarchies of TestCloningPtr.cpp *)
(* as the owned objects.                                                   *)
(*                                                                         *)
(* A pointer is a pair (object, static view); the heap maps addresses to   *)
(* objects; a control-block chain is a sequence of blocks, outermost       *)
(* first, whose tail is the block's delegate_ (<<>> is a null unique_ptr). *)
(***************************************************************************)
EXTENDS Integers, Sequences, FiniteSets, TLC

\* ----- bounds -----------------------------------------------------------
NumHandles == 2
MaxAddr == 3
MaxDepth == 2
MaxRaw == 1

Handles == 1..NumHandles
Addrs == 1..MaxAddr

\* ----- classes of the test file -----------------------------------------
\* Base is a concrete polymorphic base (struct Base); Derived and Alt are
\* two unrelated classes derived from it (DerivedType, AlternativeDerivedType),
\* each declaring the data member value_.
Classes == {"Base", "Derived", "Alt"}

\* std::is_base_of<T, U> (a class is a base of itself)
is_base_of(T, U) == T = U \/ (T = "Base" /\ U \in Classes)

\* the classes a D* converts to implicitly
BasesOf(D) == {c \in Classes : is_base_of(c, D)}

\* the classes the program instantiates with new (new DerivedType(v))
NewClasses == {"Derived"}

\* the classes that declare value_
HasValue(c) == c \in {"Derived", "Alt"}

\* the values the tests store (v = 7, new_value = 99)
Values == {7, 99}

NoObj == [dyn |-> "none", value_ |-> 0]

\* the values an object of class D can be constructed with
CtorValues(D) == IF HasValue(D) THEN Values ELSE {0}

\* new D(v)
new_object(D, v) == [dyn |-> D, value_ |-> v]

\* U's implicit copy constructor applied to the U subobject of o: the copy
\* has dynamic type U and the members U declares (a proper base slices)
copy_construct(U, o) ==
  [dyn |-> U, value_ |-> IF HasValue(U) THEN o.value_ ELSE 0]

\* ----- pointers and conversions -----------------------------------------
nullptr == [obj |-> 0, view |-> "null"]

pointer_to(a, T) == [obj |-> a, view |-> T]

\* implicit derived-to-base conversion U* -> T*
implicit_cast(p, T) == IF p = nullptr THEN nullptr ELSE pointer_to(p.obj, T)

\* static_cast<T*>(p)
static_cast(p, T) == IF p = nullptr THEN nullptr ELSE pointer_to(p.obj, T)

\* const_cast<T*>(p)
const_cast(p, T) == IF p = nullptr THEN nullptr ELSE pointer_to(p.obj, T)

\* a dynamic_cast that does not look at the object's dynamic type
dynamic_cast_unchecked(p, T, heap) == static_cast(p, T)

\* dynamic_cast<T*>(p) on heap: null unless the object's dynamic type is T
\* or derives from T
dynamic_cast(p, T, heap) ==
  IF p = nullptr THEN nullptr
  ELSE IF is_base_of(T, heap[p.obj].dyn) THEN pointer_to(p.obj, T)
  ELSE nullptr

\* ----- control blocks (cloned_ptr.h) ------------------------------------
\* A block is a record: k its class, T and U its template arguments, p_ its
\* pointer member (a U* in the blocks that own the object, the cached T* in
\* dynamic_casting_delegating_control_block, unused elsewhere), c and d the
\* copier and the deleter it is bound to.
\* A chain is a sequence of blocks: Head is the block, Tail its delegate_.
Block(k, T, U, p, c, d) ==
  [k |-> k, T |-> T, U |-> U, p_ |-> p, c |-> c, d |-> d]

\* an adapter: it owns nothing and holds no pointer of its own
Adapter(k, T, U) == Block(k, T, U, nullptr, "none", "none")

AdapterKinds == {"delegating_control_block",
                 "downcasting_delegating_control_block",
                 "dynamic_casting_delegating_control_block",
                 "const_casting_delegating_control_block"}

\* the blocks that own an object through p_
OwnerKinds == {"control_block_impl", "pointer_control_block",
               "direct_control_block", "allocated_pointer_control_block"}

\* a call through delegate_ where delegate_ is null, or *p_ where p_ is null
RECURSIVE null_deref(_)
null_deref(cb) ==
  IF cb = <<>> THEN TRUE
  ELSE IF Head(cb).k \in OwnerKinds THEN Head(cb).p_ = nullptr
  ELSE null_deref(Tail(cb))

\* the U* the innermost block owns (nullptr once released, or when the
\* chain ends in a null delegate_)
RECURSIVE owned_pointer(_)
owned_pointer(cb) ==
  IF cb = <<>> THEN nullptr
  ELSE IF Head(cb).k \in OwnerKinds THEN Head(cb).p_
  ELSE owned_pointer(Tail(cb))

\* control_block<T>::ptr(), on a chain with no null delegate_
RECURSIVE ptr(_)
ptr(cb) ==
  LET b == Head(cb) IN
  CASE b.k \in OwnerKinds -> implicit_cast(b.p_, b.T)
    [] b.k = "delegating_control_block" -> implicit_cast(ptr(Tail(cb)), b.T)
    [] b.k = "downcasting_delegating_control_block" ->
         static_cast(ptr(Tail(cb)), b.T)
    [] b.k = "dynamic_casting_delegating_control_block" -> b.p_
    [] b.k = "const_casting_delegating_control_block" ->
         const_cast(ptr(Tail(cb)), b.T)

\* the copier a block is bound to, applied to object o: default_copy<U> and
\* control_block_impl run new U(o); a user-supplied copier that calls the
\* object's own virtual clone keeps the dynamic type
apply_copier(c, U, o) ==
  IF c = "virtual_clone" THEN o ELSE copy_construct(U, o)

\* a clone that move-constructs the duplicate, new U(std::move(*p_)), and
\* so empties the object it was to copy
clone_heap_moving(cb, a, heap) ==
  LET n == Len(cb)
      b == cb[n]
  IN  [heap EXCEPT ![a] = apply_copier(b.c, b.U, heap[b.p_.obj]),
                   ![b.p_.obj] = [dyn |-> heap[b.p_.obj].dyn, value_ |-> 0]]

\* the heap after control_block<T>::clone() allocated the duplicate at a
clone_heap(cb, a, heap) ==
  LET n == Len(cb)
      b == cb[n]
  IN  [heap EXCEPT ![a] = apply_copier(b.c, b.U, heap[b.p_.obj])]

\* dynamic_casting_delegating_control_block's constructor over delegate
\* chain d: p_ = dynamic_cast<T*>(delegate_->ptr())
dynamic_casting_block(T, U, d, heap) ==
  <<Block("dynamic_casting_delegating_control_block", T, U,
          dynamic_cast(ptr(d), T, heap), "none", "none")>> \o d

\* a clone() that returns the clone of the innermost block without
\* rebuilding the adapters around it
clone_collapsing(cb, a, heap) ==
  LET b == cb[Len(cb)] IN <<[b EXCEPT !.p_ = pointer_to(a, b.U)]>>

\* control_block<T>::clone(): clones the innermost block (the duplicate is
\* at address a of heap) and rebuilds every adapter around the clone
RECURSIVE clone(_, _, _)
clone(cb, a, heap) ==
  LET b == Head(cb) IN
  IF b.k \in OwnerKinds
    THEN <<[b EXCEPT !.p_ = pointer_to(a, b.U)]>>
    ELSE LET d == clone(Tail(cb), a, heap) IN
         IF b.k = "dynamic_casting_delegating_control_block"
           THEN dynamic_casting_block(b.T, b.U, d, heap)
           ELSE <<b>> \o d

\* control_block<T>::release(): the value returned
RECURSIVE release_value(_)
release_value(cb) ==
  LET b == Head(cb) IN
  CASE b.k \in OwnerKinds -> implicit_cast(b.p_, b.T)
    [] b.k = "delegating_control_block" ->
         implicit_cast(release_value(Tail(cb)), b.T)
    [] b.k = "downcasting_delegating_control_block" ->
         static_cast(release_value(Tail(cb)), b.T)
    [] b.k = "dynamic_casting_delegating_control_block" -> b.p_
    [] b.k = "const_casting_delegating_control_block" ->
         const_cast(release_value(Tail(cb)), b.T)

\* a release() that forgets p_ = nullptr
release_chain_keeping(cb) == cb

\* control_block<T>::release(): the chain afterwards (the innermost p_ is
\* nulled; every adapter, and the cached pointer, stays as it was)
RECURSIVE release_chain(_)
release_chain(cb) ==
  LET b == Head(cb) IN
  IF b.k \in OwnerKinds
    THEN <<[b EXCEPT !.p_ = nullptr]>>
    ELSE <<b>> \o release_chain(Tail(cb))

\* a destructor that forgets delete p_
destroy_chain_leaking(cb, heap) == heap

\* the heap after the chain's destructors ran: the innermost block deletes
\* p_ (deleting a null pointer does nothing)
destroy_chain(cb, heap) ==
  IF owned_pointer(cb) = nullptr THEN heap
  ELSE [heap EXCEPT ![owned_pointer(cb).obj] = NoObj]

\* the chain's destructors delete an address that holds no live object
bad_delete(cb, heap) ==
  owned_pointer(cb) # nullptr /\ heap[owned_pointer(cb).obj] = NoObj

\* ----- state ------------------------------------------------------------
\* lib      the library the program uses: "cloned_ptr" or "polymorphic_value"
\* handles  the handle variables of the program: alive, T, ptr_, cb_
\* objs     the heap: address -> object, NoObj where nothing lives
\* raw      the raw owning pointers the caller holds (returned by release())
\* last     the observer's record. A step is taken unobserved (last stays
\*          NoLast) or observed: last then records the operation op, the
\*          handle h it ran on or built, its source handle src (0 if
\*          none) and the pointer ret it returned or was given (nullptr if
\*          none), and the run ends there. Every operation is thus
\*          examined from every state the program reaches, and observing
\*          adds nothing to what the program does.
\* ub       the program ran into undefined behaviour
VARIABLES lib, handles, objs, raw, last, ub

vars == <<lib, handles, objs, raw, last, ub>>

Handle(T, p, cb) == [alive |-> TRUE, T |-> T, ptr_ |-> p, cb_ |-> cb]

\* a handle variable out of scope (not constructed yet, or destroyed)
Dead == [alive |-> FALSE, T |-> "none", ptr_ |-> nullptr, cb_ |-> <<>>]

\* a heap that holds no object
NoHeap == [a \in Addrs |-> NoObj]

\* the comparison operators
CompareOps == {"==", "!=", "<", "<=", ">", ">="}

\* no comparison was made
NoRes == [o \in CompareOps |-> FALSE]

\* mid is the heap in the middle of an assignment, between its two effects
\* on the heap (NoHeap for the other operations); res is what each of the
\* comparison operators returned (NoRes for the other operations)
Last(op, h, src, ret) ==
  [op |-> op, h |-> h, src |-> src, ret |-> ret, mid |-> NoHeap,
   res |-> NoRes]

NoLast == Last("none", 0, 0, nullptr)

\* the program runs until it ends in undefined behaviour or the observer
\* has recorded a step
Running == ~ub /\ last = NoLast

\* the handles a running program can operate on: none once it has stopped
Active == IF Running THEN Handles ELSE {}

\* the handles a statement of library l can name
ActiveIn(l) == IF lib = l THEN Active ELSE {}

\* the records the observer may hold after the step op
Rec(op, h, src, ret) == {NoLast, Last(op, h, src, ret)}

\* the same for an assignment, heap being the heap in its middle
RecMid(op, h, src, ret, heap) ==
  {NoLast, [Last(op, h, src, ret) EXCEPT !.mid = heap]}

\* the same for a comparison, res being the results
RecRes(op, h, src, res) ==
  {NoLast, [Last(op, h, src, nullptr) EXCEPT !.res = res]}

Free(heap) == {a \in Addrs : heap[a] = NoObj}

\* operator new: the allocator is first-fit, the lowest free address
NewAddr(heap) == {a \in Free(heap) : \A b \in Free(heap) : a <= b}

\* DerivedType::object_count: the number of live objects
object_count(heap) == Cardinality({a \in Addrs : heap[a] # NoObj})

Libraries == {"cloned_ptr", "polymorphic_value"}

\* the program before its first statement
Init ==
  /\ lib \in Libraries
  /\ handles = [h \in Handles |-> Dead]
  /\ objs = [a \in Addrs |-> NoObj]
  /\ raw = {}
  /\ last = NoLast
  /\ ub = FALSE


\* ----- cloned_ptr: the handle's member functions ------------------------
\* cloned_ptr() and cloned_ptr(nullptr_t)
default_ctor(T) == Handle(T, nullptr, <<>>)

\* cloned_ptr::operator bool and polymorphic_value::operator bool
op_bool(p) == IF lib = "cloned_ptr" THEN p.ptr_ # nullptr ELSE p.cb_ # <<>>

\* bool converted to int: the integral promotion
promote(b) == IF b THEN 1 ELSE 0

\* the built-in operator o on two ints
builtin_compare(o, x, y) ==
  CASE o = "==" -> x = y
    [] o = "!=" -> x # y
    [] o = "<"  -> x < y
    [] o = "<=" -> x <= y
    [] o = ">"  -> x > y
    [] o = ">=" -> x >= y

\* a o b for two cloned_ptr a and b. The comparison operators of
\* cloned_ptr.h are inside a comment, so the only viable candidate is the
\* built-in operator on int, each operand converted by the implicit
\* operator bool and promoted.
compare(o, a, b) ==
  builtin_compare(o, promote(op_bool(a)), promote(op_bool(b)))

\* cloned_ptr<T>::cloned_ptr(U* u)
pointer_ctor(T, U, u) ==
  IF u = nullptr THEN Handle(T, nullptr, <<>>)
  ELSE Handle(T, implicit_cast(u, T),
              <<Block("control_block_impl", T, U, u, "new_U", "delete")>>)

\* a copy constructor that shares the source's chain instead of cloning it
copy_ctor_sharing(p, a, heap) == Handle(p.T, p.ptr_, p.cb_)

\* copy constructor: the handle built from p, the duplicate (if any) at a
copy_ctor(p, a, heap) ==
  IF ~op_bool(p) THEN Handle(p.T, nullptr, <<>>)
  ELSE LET tmp_cb == clone(p.cb_, a, clone_heap(p.cb_, a, heap))
       IN  Handle(p.T, ptr(tmp_cb), tmp_cb)

\* the heap after the copy constructor ran
copy_ctor_heap(p, a, heap) ==
  IF ~op_bool(p) THEN heap ELSE clone_heap(p.cb_, a, heap)

\* the copy constructor dereferences a null pointer on p
copy_ctor_ub(p) == op_bool(p) /\ null_deref(p.cb_)

\* the addresses a copy of p may allocate its duplicate at (0: none needed)
CopyAddrs(p, heap) == IF op_bool(p) THEN NewAddr(heap) ELSE {0}

\* converting copy constructor cloned_ptr<T>(const cloned_ptr<U>& p)
converting_copy_ctor(T, p, a, heap) ==
  LET tmp == copy_ctor(p, a, heap) IN
  Handle(T, implicit_cast(tmp.ptr_, T),
         <<Adapter("delegating_control_block", T, p.T)>>
           \o tmp.cb_)

\* move constructor: the handle built from p
move_ctor(p) == Handle(p.T, p.ptr_, p.cb_)

\* a move that forgets p.ptr_ = nullptr
moved_from_keeping_ptr(p) == Handle(p.T, p.ptr_, <<>>)

\* a handle after it was moved from: cb_ moved out, ptr_ = nullptr
moved_from(p) == Handle(p.T, nullptr, <<>>)

\* converting move constructor cloned_ptr<T>(cloned_ptr<U>&& p)
converting_move_ctor(T, p) ==
  Handle(T, implicit_cast(p.ptr_, T),
         <<Adapter("delegating_control_block", T, p.T)>>
           \o p.cb_)

\* a release() that forgets ptr_ = nullptr
release_handle_keeping_ptr(p) ==
  IF p.ptr_ = nullptr THEN p
  ELSE Handle(p.T, p.ptr_, release_chain(p.cb_))

\* release(): the handle afterwards
release_handle(p) ==
  IF p.ptr_ = nullptr THEN p
  ELSE Handle(p.T, nullptr, release_chain(p.cb_))

\* release(): the pointer returned
release_result(p) ==
  IF p.ptr_ = nullptr THEN nullptr ELSE release_value(p.cb_)

\* std::static_pointer_cast<T>(p)
static_pointer_cast(T, p, a, heap) ==
  LET tmp == copy_ctor(p, a, heap) IN
  Handle(T, static_cast(tmp.ptr_, T),
         <<Adapter("downcasting_delegating_control_block", T, p.T)>> \o tmp.cb_)

\* std::dynamic_pointer_cast<T>(p) past its early return
dynamic_pointer_cast(T, p, a, heap) ==
  LET tmp == copy_ctor(p, a, heap)
      h2 == copy_ctor_heap(p, a, heap)
  IN  Handle(T, dynamic_cast(tmp.ptr_, T, h2),
             dynamic_casting_block(T, p.T, tmp.cb_, h2))

\* std::const_pointer_cast<T>(p)
const_pointer_cast(T, p, a, heap) ==
  LET tmp == copy_ctor(p, a, heap) IN
  Handle(T, const_cast(tmp.ptr_, T),
         <<Adapter("const_casting_delegating_control_block", T, p.T)>> \o tmp.cb_)

\* ----- steps shared by both libraries -----------------------------------
\* A step that dereferences a null pointer: the program is terminated, or
\* runs on with the handle being built left empty (khs gives both outcomes).
Undefined(op, h, src, khs) ==
  /\ ub' = TRUE
  /\ handles' \in khs
  /\ last' \in Rec(op, h, src, nullptr)
  /\ UNCHANGED <<lib, objs, raw>>

DefaultCtorStep(h, T) ==
  /\ Running /\ ~handles[h].alive
  /\ handles' = [handles EXCEPT ![h] = default_ctor(T)]
  /\ last' \in Rec("default_ctor", h, 0, nullptr)
  /\ UNCHANGED <<lib, objs, raw, ub>>

\* a copy constructor that takes the chain of its source, leaving it empty
CopyCtorConsuming(h, s) ==
  /\ Running /\ ~handles[h].alive /\ handles[s].alive
  /\ handles' = [handles EXCEPT ![h] = move_ctor(handles[s]),
                                ![s] = moved_from(handles[s])]
  /\ last' \in Rec("copy_ctor", h, s, nullptr)
  /\ UNCHANGED <<lib, objs, raw, ub>>

CopyCtorStep(h, s) ==
  /\ Running /\ ~handles[h].alive /\ handles[s].alive
  /\ LET p == handles[s] IN
     IF copy_ctor_ub(p)
       THEN Undefined("copy_ctor", h, s,
              {handles, [handles EXCEPT ![h] = default_ctor(p.T)]})
       ELSE \E a \in CopyAddrs(p, objs) :
              /\ handles' = [handles EXCEPT ![h] = copy_ctor(p, a, objs)]
              /\ objs' = copy_ctor_heap(p, a, objs)
              /\ last' \in Rec("copy_ctor", h, s, nullptr)
              /\ UNCHANGED <<lib, raw, ub>>

MoveCtorStep(h, s) ==
  /\ Running /\ ~handles[h].alive /\ handles[s].alive
  /\ handles' = [handles EXCEPT ![h] = move_ctor(handles[s]),
                                ![s] = moved_from(handles[s])]
  /\ last' \in Rec("move_ctor", h, s, nullptr)
  /\ UNCHANGED <<lib, objs, raw, ub>>

ConvertingCopyCtorStep(h, s, T) ==
  /\ Running /\ ~handles[h].alive /\ handles[s].alive
  /\ T # handles[s].T /\ is_base_of(T, handles[s].T)
  /\ Len(handles[s].cb_) < MaxDepth
  /\ LET p == handles[s] IN
     IF copy_ctor_ub(p)
       THEN Undefined("converting_copy_ctor", h, s,
              {handles, [handles EXCEPT ![h] = default_ctor(T)]})
       ELSE \E a \in CopyAddrs(p, objs) :
              /\ handles' =
                   [handles EXCEPT ![h] = converting_copy_ctor(T, p, a, objs)]
              /\ objs' = copy_ctor_heap(p, a, objs)
              /\ last' \in Rec("converting_copy_ctor", h, s, nullptr)
              /\ UNCHANGED <<lib, raw, ub>>

ConvertingMoveCtorStep(h, s, T) ==
  /\ Running /\ ~handles[h].alive /\ handles[s].alive
  /\ T # handles[s].T /\ is_base_of(T, handles[s].T)
  /\ Len(handles[s].cb_) < MaxDepth
  /\ handles' = [handles EXCEPT ![h] = converting_move_ctor(T, handles[s]),
                                ![s] = moved_from(handles[s])]
  /\ last' \in Rec("converting_move_ctor", h, s, nullptr)
  /\ UNCHANGED <<lib, objs, raw, ub>>

\* if (&p == this), never: an assignment without the self-assignment test
never_same_object(h, s) == FALSE

\* &p == this, the self-assignment test of both assignment operators
same_object(h, s) == h = s

\* a copy assignment that destroys the chain it holds first and clones p's
\* chain afterwards
CopyAssignDestroyFirst(h, s) ==
  /\ Running /\ handles[h].alive /\ handles[s].alive
  /\ handles[h].T = handles[s].T
  /\ LET p == handles[s]
         t == handles[h]
         heap1 == destroy_chain(t.cb_, objs)
     IN
     IF h = s
       THEN /\ last' \in Rec("copy_assign", h, s, nullptr)
            /\ UNCHANGED <<lib, handles, objs, raw, ub>>
     ELSE IF copy_ctor_ub(p)
       THEN Undefined("copy_assign", h, s, {handles})
       ELSE \E a \in CopyAddrs(p, heap1) :
              /\ handles' = [handles EXCEPT ![h] = copy_ctor(p, a, heap1)]
              /\ objs' = copy_ctor_heap(p, a, heap1)
              /\ ub' = bad_delete(t.cb_, objs)
              /\ last' \in RecMid("copy_assign", h, s, nullptr, heap1)
              /\ UNCHANGED <<lib, raw>>

\* operator=(const X& p): self-assignment returns at once; an empty p
\* resets cb_; else the clone is made first and then replaces cb_, which
\* destroys the chain held before
CopyAssignStep(h, s) ==
  /\ Running /\ handles[h].alive /\ handles[s].alive
  /\ handles[h].T = handles[s].T
  /\ LET p == handles[s]
         t == handles[h]
     IN
     IF same_object(h, s)
       THEN /\ last' \in Rec("copy_assign", h, s, nullptr)
            /\ UNCHANGED <<lib, handles, objs, raw, ub>>
     ELSE IF copy_ctor_ub(p)
       THEN Undefined("copy_assign", h, s, {handles})
       ELSE \E a \in CopyAddrs(p, objs) :
              LET heap1 == copy_ctor_heap(p, a, objs) IN
              /\ handles' = [handles EXCEPT ![h] = copy_ctor(p, a, objs)]
              /\ objs' = destroy_chain(t.cb_, heap1)
              /\ ub' = bad_delete(t.cb_, heap1)
              /\ last' \in RecMid("copy_assign", h, s, nullptr, heap1)
              /\ UNCHANGED <<lib, raw>>

\* a move assignment that exchanges the two handles instead
MoveAssignBySwap(h, s) ==
  /\ Running /\ handles[h].alive /\ handles[s].alive
  /\ handles[h].T = handles[s].T
  /\ handles' = [handles EXCEPT ![h] = handles[s], ![s] = handles[h]]
  /\ last' \in Rec("move_assign", h, s, nullptr)
  /\ UNCHANGED <<lib, objs, raw, ub>>

\* operator=(X&& p): self-assignment returns at once; else cb_ takes p's
\* chain (the chain held before is destroyed) and p is left empty
MoveAssignStep(h, s) ==
  /\ Running /\ handles[h].alive /\ handles[s].alive
  /\ handles[h].T = handles[s].T
  /\ LET p == handles[s]
         t == handles[h]
     IN
     IF same_object(h, s)
       THEN /\ last' \in Rec("move_assign", h, s, nullptr)
            /\ UNCHANGED <<lib, handles, objs, raw, ub>>
       ELSE /\ handles' = [handles EXCEPT ![h] = move_ctor(p),
                                          ![s] = moved_from(p)]
            /\ objs' = destroy_chain(t.cb_, objs)
            /\ ub' = bad_delete(t.cb_, objs)
            /\ last' \in Rec("move_assign", h, s, nullptr)
            /\ UNCHANGED <<lib, raw>>

\* swap(p): exchanges ptr_ and cb_
SwapStep(h, s) ==
  /\ Running /\ handles[h].alive /\ handles[s].alive
  /\ handles[h].T = handles[s].T
  /\ handles' = [handles EXCEPT ![h] = handles[s], ![s] = handles[h]]
  /\ last' \in Rec("swap", h, s, nullptr)
  /\ UNCHANGED <<lib, objs, raw, ub>>

\* the destructor: cb_ is destroyed, and with it the chain and its object
DtorStep(h) ==
  /\ Running /\ handles[h].alive
  /\ handles' = [handles EXCEPT ![h] = Dead]
  /\ objs' = destroy_chain(handles[h].cb_, objs)
  /\ ub' = bad_delete(handles[h].cb_, objs)
  /\ last' \in Rec("dtor", h, 0, nullptr)
  /\ UNCHANGED <<lib, raw>>

\* h->set_value(v), a call through operator->
SetValue(h, v) ==
  /\ Running /\ handles[h].alive /\ handles[h].ptr_ # nullptr
  /\ LET q == handles[h].ptr_ IN
     /\ objs[q.obj] # NoObj
     /\ is_base_of(q.view, objs[q.obj].dyn)
     /\ HasValue(objs[q.obj].dyn)
     /\ objs' = [objs EXCEPT ![q.obj].value_ = v]
  /\ last' \in Rec("set_value", h, 0, nullptr)
  /\ UNCHANGED <<lib, handles, raw, ub>>

\* the caller deletes a raw pointer it owns (std::unique_ptr cleanup(p))
DeleteRaw(r) ==
  /\ Running /\ r \in raw
  /\ raw' = raw \ {r}
  /\ objs' = [objs EXCEPT ![r.obj] = NoObj]
  /\ ub' = (objs[r.obj] = NoObj)
  /\ last' \in Rec("delete", 0, 0, r)
  /\ UNCHANGED <<lib, handles>>

\* ----- cloned_ptr: actions ----------------------------------------------
DefaultCtor(h, T) == lib = "cloned_ptr" /\ DefaultCtorStep(h, T)

\* cloned_ptr<T> h(new D(v)), the pointer given as a U*; the object is
\* allocated at a
PointerCtor(h, T, U, D, v, a) ==
  /\ lib = "cloned_ptr" /\ Running /\ ~handles[h].alive
  /\ is_base_of(T, U) /\ is_base_of(U, D)
  /\ a \in NewAddr(objs) /\ D \in NewClasses
  /\ handles' = [handles EXCEPT ![h] = pointer_ctor(T, U, pointer_to(a, U))]
  /\ objs' = [objs EXCEPT ![a] = new_object(D, v)]
  /\ last' \in Rec("pointer_ctor", h, 0, nullptr)
  /\ UNCHANGED <<lib, raw, ub>>

\* cloned_ptr<T> h(r), r a raw pointer the caller owns
PointerCtorRaw(h, T, r) ==
  /\ lib = "cloned_ptr" /\ Running /\ ~handles[h].alive
  /\ r \in raw /\ is_base_of(T, r.view)
  /\ handles' = [handles EXCEPT ![h] = pointer_ctor(T, r.view, r)]
  /\ raw' = raw \ {r}
  /\ last' \in Rec("pointer_ctor", h, 0, nullptr)
  /\ UNCHANGED <<lib, objs, ub>>

CopyCtor(h, s) == lib = "cloned_ptr" /\ CopyCtorStep(h, s)

MoveCtor(h, s) == lib = "cloned_ptr" /\ MoveCtorStep(h, s)

ConvertingCopyCtor(h, s, T) ==
  lib = "cloned_ptr" /\ ConvertingCopyCtorStep(h, s, T)

ConvertingMoveCtor(h, s, T) ==
  lib = "cloned_ptr" /\ ConvertingMoveCtorStep(h, s, T)

CopyAssign(h, s) == lib = "cloned_ptr" /\ CopyAssignStep(h, s)

MoveAssign(h, s) == lib = "cloned_ptr" /\ MoveAssignStep(h, s)

\* operator=(cloned_ptr<U>&& p), U # T (no self-assignment test; the two
\* handles have different types)
converting_move_assign(T, p) ==
  Handle(T, implicit_cast(p.ptr_, T),
         <<Adapter("delegating_control_block", T, p.T)>>
           \o p.cb_)

ConvertingMoveAssign(h, s) ==
  /\ lib = "cloned_ptr" /\ Running /\ handles[h].alive /\ handles[s].alive
  /\ handles[h].T # handles[s].T /\ is_base_of(handles[h].T, handles[s].T)
  /\ Len(handles[s].cb_) < MaxDepth
  /\ handles' =
       [handles EXCEPT ![h] = converting_move_assign(handles[h].T, handles[s]),
                       ![s] = moved_from(handles[s])]
  /\ objs' = destroy_chain(handles[h].cb_, objs)
  /\ ub' = bad_delete(handles[h].cb_, objs)
  /\ last' \in Rec("converting_move_assign", h, s, nullptr)
  /\ UNCHANGED <<lib, raw>>

\* operator=(const cloned_ptr<U>& p), U # T: cloned_ptr<U> tmp(p);
\* *this = std::move(tmp)
ConvertingCopyAssign(h, s) ==
  /\ lib = "cloned_ptr" /\ Running /\ handles[h].alive /\ handles[s].alive
  /\ handles[h].T # handles[s].T /\ is_base_of(handles[h].T, handles[s].T)
  /\ Len(handles[s].cb_) < MaxDepth
  /\ LET p == handles[s]
         t == handles[h]
     IN
     IF copy_ctor_ub(p)
       THEN Undefined("converting_copy_assign", h, s, {handles})
       ELSE \E a \in CopyAddrs(p, objs) :
              LET tmp == copy_ctor(p, a, objs)
                  heap1 == copy_ctor_heap(p, a, objs)
              IN
              /\ handles' =
                   [handles EXCEPT ![h] = converting_move_assign(t.T, tmp)]
              /\ objs' = destroy_chain(t.cb_, heap1)
              /\ ub' = bad_delete(t.cb_, heap1)
              /\ last' \in Rec("converting_copy_assign", h, s, nullptr)
              /\ UNCHANGED <<lib, raw>>

\* T* release()
Release(h) ==
  /\ lib = "cloned_ptr" /\ Running /\ handles[h].alive
  /\ LET p == handles[h]
         r == release_result(p)
     IN
     /\ r # nullptr => Cardinality(raw) < MaxRaw
     /\ handles' = [handles EXCEPT ![h] = release_handle(p)]
     /\ raw' = IF r = nullptr THEN raw ELSE raw \cup {r}
     /\ last' \in Rec("release", h, 0, r)
  /\ UNCHANGED <<lib, objs, ub>>

\* a reset without the self-reset guard
reset_never_noop(t, u) == FALSE

\* reset(U* u): the guard that makes it a no-op
reset_is_noop(t, u) == static_cast(u, t.T) = t.ptr_

\* reset(U* u) past the guard: cloned_ptr<U> tmp(u); *this = std::move(tmp),
\* the move assignment when U = T and the converting one otherwise
reset_handle(t, U, u) ==
  LET tmp == pointer_ctor(U, U, u) IN
  IF U = t.T THEN move_ctor(tmp) ELSE converting_move_assign(t.T, tmp)

\* what reset(U* u) does to handle h, u pointing into heap1
ResetStep(h, U, u, heap1) ==
  LET t == handles[h] IN
  /\ is_base_of(t.T, U)
  /\ U # t.T => MaxDepth >= 2
  /\ IF reset_is_noop(t, u)
       THEN /\ handles' = handles
            /\ objs' = heap1
            /\ ub' = ub
       ELSE /\ handles' = [handles EXCEPT ![h] = reset_handle(t, U, u)]
            /\ objs' = destroy_chain(t.cb_, heap1)
            /\ ub' = bad_delete(t.cb_, heap1)
  /\ last' \in Rec("reset", h, 0, u)
  /\ UNCHANGED lib

\* h o s for each comparison operator o: nothing changes. (With
\* polymorphic_value, whose operator bool is explicit, and with nullptr as
\* an operand, the expression does not compile.)
Compare(h, s) ==
  /\ lib = "cloned_ptr" /\ Running /\ handles[h].alive /\ handles[s].alive
  /\ last' \in RecRes("compare", h, s,
                      [o \in CompareOps |-> compare(o, handles[h], handles[s])])
  /\ UNCHANGED <<lib, handles, objs, raw, ub>>

\* h.reset(), h.reset(nullptr) and h.reset(h.get())
Reset(h, U, u) ==
  /\ lib = "cloned_ptr" /\ Running /\ handles[h].alive
  /\ u \in {nullptr, handles[h].ptr_}
  /\ u # nullptr => U = handles[h].T
  /\ ResetStep(h, U, u, objs)
  /\ UNCHANGED raw

\* h.reset(new D(v)), the pointer given as a U*
ResetNew(h, U, D, v, a) ==
  /\ lib = "cloned_ptr" /\ Running /\ handles[h].alive
  /\ is_base_of(U, D) /\ a \in NewAddr(objs) /\ D \in NewClasses
  /\ ResetStep(h, U, pointer_to(a, U), [objs EXCEPT ![a] = new_object(D, v)])
  /\ UNCHANGED raw

\* h.reset(r), r a raw pointer the caller owns
ResetRaw(h, r) ==
  /\ lib = "cloned_ptr" /\ Running /\ handles[h].alive /\ r \in raw
  /\ ResetStep(h, r.view, r, objs)
  /\ raw' = raw \ {r}

\* the instantiations of the casts the program uses: a downcast from a
\* handle of the base class (static_pointer_cast<DerivedType>(dptr),
\* dynamic_pointer_cast<AlternativeDerivedType>(dptr))
is_downcast(T, U) == T # U /\ is_base_of(U, T)

\* auto h = std::static_pointer_cast<T>(s); the caller guarantees that the
\* object of s can be viewed as a T
StaticPointerCast(h, s, T) ==
  /\ lib = "cloned_ptr" /\ Running /\ ~handles[h].alive /\ handles[s].alive
  /\ is_downcast(T, handles[s].T)
  /\ Len(handles[s].cb_) < MaxDepth
  /\ LET p == handles[s] IN
     /\ p.ptr_ # nullptr => is_base_of(T, objs[p.ptr_.obj].dyn)
     /\ IF copy_ctor_ub(p)
          THEN Undefined("static_pointer_cast", h, s,
                 {handles, [handles EXCEPT ![h] = default_ctor(T)]})
          ELSE \E a \in CopyAddrs(p, objs) :
                 /\ handles' =
                      [handles EXCEPT ![h] = static_pointer_cast(T, p, a, objs)]
                 /\ objs' = copy_ctor_heap(p, a, objs)
                 /\ last' \in Rec("static_pointer_cast", h, s, nullptr)
                 /\ UNCHANGED <<lib, raw, ub>>

\* auto h = std::dynamic_pointer_cast<T>(s)
DynamicPointerCast(h, s, T) ==
  /\ lib = "cloned_ptr" /\ Running /\ ~handles[h].alive /\ handles[s].alive
  /\ is_downcast(T, handles[s].T)
  /\ LET p == handles[s] IN
     IF dynamic_cast(p.ptr_, T, objs) = nullptr
       THEN /\ handles' = [handles EXCEPT ![h] = default_ctor(T)]
            /\ last' \in Rec("dynamic_pointer_cast", h, s, nullptr)
            /\ UNCHANGED <<lib, objs, raw, ub>>
       ELSE /\ Len(p.cb_) < MaxDepth
            /\ IF copy_ctor_ub(p)
                 THEN Undefined("dynamic_pointer_cast", h, s,
                        {handles, [handles EXCEPT ![h] = default_ctor(T)]})
                 ELSE \E a \in CopyAddrs(p, objs) :
                        /\ handles' = [handles EXCEPT
                             ![h] = dynamic_pointer_cast(T, p, a, objs)]
                        /\ objs' = copy_ctor_heap(p, a, objs)
                        /\ last' \in Rec("dynamic_pointer_cast", h, s, nullptr)
                        /\ UNCHANGED <<lib, raw, ub>>

\* auto h = std::const_pointer_cast<T>(s), T the class of s
ConstPointerCast(h, s) ==
  /\ lib = "cloned_ptr" /\ Running /\ ~handles[h].alive /\ handles[s].alive
  /\ Len(handles[s].cb_) < MaxDepth
  /\ LET p == handles[s] IN
     IF copy_ctor_ub(p)
       THEN Undefined("const_pointer_cast", h, s,
              {handles, [handles EXCEPT ![h] = default_ctor(p.T)]})
       ELSE \E a \in CopyAddrs(p, objs) :
              /\ handles' =
                   [handles EXCEPT ![h] = const_pointer_cast(p.T, p, a, objs)]
              /\ objs' = copy_ctor_heap(p, a, objs)
              /\ last' \in Rec("const_pointer_cast", h, s, nullptr)
              /\ UNCHANGED <<lib, raw, ub>>

Swap(h, s) == lib = "cloned_ptr" /\ SwapStep(h, s)

Dtor(h) == lib = "cloned_ptr" /\ DtorStep(h)

ClonedPtrNext ==
  \/ \E h \in ActiveIn("cloned_ptr"), T \in Classes : DefaultCtor(h, T)
  \/ \E h \in ActiveIn("cloned_ptr"), T, U \in Classes, D \in NewClasses :
       \E v \in CtorValues(D), a \in NewAddr(objs) :
       PointerCtor(h, T, U, D, v, a)
  \/ \E h \in ActiveIn("cloned_ptr"), T \in Classes :
       \E r \in raw : PointerCtorRaw(h, T, r)
  \/ \E h, s \in ActiveIn("cloned_ptr") : CopyCtor(h, s)
  \/ \E h, s \in ActiveIn("cloned_ptr") : MoveCtor(h, s)
  \/ \E h, s \in ActiveIn("cloned_ptr"), T \in Classes : ConvertingCopyCtor(h, s, T)
  \/ \E h, s \in ActiveIn("cloned_ptr"), T \in Classes : ConvertingMoveCtor(h, s, T)
  \/ \E h, s \in ActiveIn("cloned_ptr") : CopyAssign(h, s)
  \/ \E h, s \in ActiveIn("cloned_ptr") : MoveAssign(h, s)
  \/ \E h, s \in ActiveIn("cloned_ptr") : ConvertingCopyAssign(h, s)
  \/ \E h, s \in ActiveIn("cloned_ptr") : ConvertingMoveAssign(h, s)
  \/ \E h \in ActiveIn("cloned_ptr") : Release(h)
  \/ \E h \in ActiveIn("cloned_ptr"), U \in Classes :
       \E u \in {nullptr, handles[h].ptr_} :
       Reset(h, U, u)
  \/ \E h \in ActiveIn("cloned_ptr"), U \in Classes, D \in NewClasses :
       \E v \in CtorValues(D), a \in NewAddr(objs) :
       ResetNew(h, U, D, v, a)
  \/ \E h \in ActiveIn("cloned_ptr") : \E r \in raw : ResetRaw(h, r)
  \/ \E h, s \in ActiveIn("cloned_ptr"), T \in Classes : StaticPointerCast(h, s, T)
  \/ \E h, s \in ActiveIn("cloned_ptr"), T \in Classes : DynamicPointerCast(h, s, T)
  \/ \E h, s \in ActiveIn("cloned_ptr") : ConstPointerCast(h, s)
  \/ \E h, s \in ActiveIn("cloned_ptr") : Swap(h, s)
  \/ \E h, s \in ActiveIn("cloned_ptr") : Compare(h, s)
  \/ \E h \in ActiveIn("cloned_ptr") : Dtor(h)

\* ----- polymorphic_value ------------------------------------------------
\* polymorphic_value<T>(U* u, C copier, D deleter) throws
\* bad_polymorphic_value_construction: both are the defaults and the
\* object's dynamic type is not U
bad_construction(U, c, d, o) ==
  d = "default_delete" /\ c = "default_copy" /\ o.dyn # U

\* polymorphic_value<T>(U* u, C copier, D deleter) when it does not throw
pv_pointer_ctor(T, U, u, c, d) ==
  IF u = nullptr THEN Handle(T, nullptr, <<>>)
  ELSE Handle(T, implicit_cast(u, T),
              <<Block("pointer_control_block", T, U, u, c, d)>>)

\* make_polymorphic_value<T, U>(v) and the in-place constructor: the
\* object is the member u_ of a direct_control_block<T, U>, at address a
make_polymorphic_value(T, U, a) ==
  LET cb == <<Block("direct_control_block", T, U, pointer_to(a, U),
                    "copy_constructor", "member")>>
  IN  Handle(T, ptr(cb), cb)

\* polymorphic_value<T>(U* u, std::allocator_arg_t, alloc) throws
\* bad_polymorphic_value_construction: the object's dynamic type is not U
bad_allocator_construction(U, o) == o.dyn # U

\* polymorphic_value<T>(U* u, std::allocator_arg_t, alloc) when it does
\* not throw
pv_allocator_ctor(T, U, u) ==
  IF u = nullptr THEN Handle(T, nullptr, <<>>)
  ELSE Handle(T, implicit_cast(u, T),
              <<Block("allocated_pointer_control_block", T, U, u,
                      "allocator_construct", "deallocate_object")>>)

\* allocate_polymorphic_value<T, U>(std::allocator_arg, alloc, v): the
\* object is allocated and constructed through the allocator, at address a
allocate_polymorphic_value(T, U, a) ==
  LET cb == <<Block("allocated_pointer_control_block", T, U,
                    pointer_to(a, U), "allocator_construct",
                    "deallocate_object")>>
  IN  Handle(T, ptr(cb), cb)

Copiers == {"default_copy", "virtual_clone"}

Deleters == {"default_delete", "custom_delete"}

PvDefaultCtor(h, T) == lib = "polymorphic_value" /\ DefaultCtorStep(h, T)

\* polymorphic_value<T> h(new D(v), c, d), the pointer given as a U*; when
\* the constructor throws, no handle is built and the object stays with
\* the caller
PvPointerCtor(h, T, U, D, v, c, d, a) ==
  /\ lib = "polymorphic_value" /\ Running /\ ~handles[h].alive
  /\ is_base_of(T, U) /\ is_base_of(U, D)
  /\ a \in NewAddr(objs) /\ D \in NewClasses
  /\ objs' = [objs EXCEPT ![a] = new_object(D, v)]
  /\ IF bad_construction(U, c, d, new_object(D, v))
       THEN /\ Cardinality(raw) < MaxRaw
            /\ handles' = handles
            /\ raw' = raw \cup {pointer_to(a, U)}
            /\ last' \in Rec("bad_polymorphic_value_construction", h, 0,
                           pointer_to(a, U))
       ELSE /\ handles' = [handles EXCEPT
                 ![h] = pv_pointer_ctor(T, U, pointer_to(a, U), c, d)]
            /\ raw' = raw
            /\ last' \in Rec("pointer_ctor", h, 0, nullptr)
  /\ UNCHANGED <<lib, ub>>

\* polymorphic_value<T> h(r, c, d), r a raw pointer the caller owns
PvPointerCtorRaw(h, T, r, c, d) ==
  /\ lib = "polymorphic_value" /\ Running /\ ~handles[h].alive
  /\ r \in raw /\ is_base_of(T, r.view)
  /\ IF bad_construction(r.view, c, d, objs[r.obj])
       THEN /\ handles' = handles
            /\ raw' = raw
            /\ last' \in Rec("bad_polymorphic_value_construction", h, 0, r)
       ELSE /\ handles' = [handles EXCEPT
                 ![h] = pv_pointer_ctor(T, r.view, r, c, d)]
            /\ raw' = raw \ {r}
            /\ last' \in Rec("pointer_ctor", h, 0, nullptr)
  /\ UNCHANGED <<lib, objs, ub>>

\* auto h = make_polymorphic_value<T, U>(v)
PvMake(h, T, U, v, a) ==
  /\ lib = "polymorphic_value" /\ Running /\ ~handles[h].alive
  /\ is_base_of(T, U) /\ U \in NewClasses /\ a \in NewAddr(objs)
  /\ handles' = [handles EXCEPT ![h] = make_polymorphic_value(T, U, a)]
  /\ objs' = [objs EXCEPT ![a] = new_object(U, v)]
  /\ last' \in Rec("make_polymorphic_value", h, 0, nullptr)
  /\ UNCHANGED <<lib, raw, ub>>

\* polymorphic_value<T> h(u, std::allocator_arg, alloc), u a U* to an
\* object D(v) the caller allocated with alloc; when the constructor
\* throws, no handle is built and the object stays with the caller
PvAllocatorCtor(h, T, U, D, v, a) ==
  /\ lib = "polymorphic_value" /\ Running /\ ~handles[h].alive
  /\ is_base_of(T, U) /\ is_base_of(U, D)
  /\ a \in NewAddr(objs) /\ D \in NewClasses
  /\ objs' = [objs EXCEPT ![a] = new_object(D, v)]
  /\ IF bad_allocator_construction(U, new_object(D, v))
       THEN /\ Cardinality(raw) < MaxRaw
            /\ handles' = handles
            /\ raw' = raw \cup {pointer_to(a, U)}
            /\ last' \in Rec("bad_polymorphic_value_construction", h, 0,
                           pointer_to(a, U))
       ELSE /\ handles' = [handles EXCEPT
                 ![h] = pv_allocator_ctor(T, U, pointer_to(a, U))]
            /\ raw' = raw
            /\ last' \in Rec("pointer_ctor", h, 0, nullptr)
  /\ UNCHANGED <<lib, ub>>

\* auto h = allocate_polymorphic_value<T, U>(std::allocator_arg, alloc, v)
PvAllocate(h, T, U, v, a) ==
  /\ lib = "polymorphic_value" /\ Running /\ ~handles[h].alive
  /\ is_base_of(T, U) /\ U \in NewClasses /\ a \in NewAddr(objs)
  /\ handles' = [handles EXCEPT ![h] = allocate_polymorphic_value(T, U, a)]
  /\ objs' = [objs EXCEPT ![a] = new_object(U, v)]
  /\ last' \in Rec("allocate_polymorphic_value", h, 0, nullptr)
  /\ UNCHANGED <<lib, raw, ub>>

PvCopyCtor(h, s) == lib = "polymorphic_value" /\ CopyCtorStep(h, s)

PvMoveCtor(h, s) == lib = "polymorphic_value" /\ MoveCtorStep(h, s)

PvConvertingCopyCtor(h, s, T) ==
  lib = "polymorphic_value" /\ ConvertingCopyCtorStep(h, s, T)

PvConvertingMoveCtor(h, s, T) ==
  lib = "polymorphic_value" /\ ConvertingMoveCtorStep(h, s, T)

PvCopyAssign(h, s) == lib = "polymorphic_value" /\ CopyAssignStep(h, s)

PvMoveAssign(h, s) == lib = "polymorphic_value" /\ MoveAssignStep(h, s)

PvSwap(h, s) == lib = "polymorphic_value" /\ SwapStep(h, s)

PvDtor(h) == lib = "polymorphic_value" /\ DtorStep(h)

PolymorphicValueNext ==
  \/ \E h \in ActiveIn("polymorphic_value"), T \in Classes : PvDefaultCtor(h, T)
  \/ \E h \in ActiveIn("polymorphic_value"), T, U \in Classes, D \in NewClasses :
       \E v \in CtorValues(D), c \in Copiers, d \in Deleters, a \in NewAddr(objs) :
         PvPointerCtor(h, T, U, D, v, c, d, a)
  \/ \E h \in ActiveIn("polymorphic_value"), T \in Classes :
       \E r \in raw, c \in Copiers, d \in Deleters :
         PvPointerCtorRaw(h, T, r, c, d)
  \/ \E h \in ActiveIn("polymorphic_value"), T, U \in Classes :
       \E v \in CtorValues(U), a \in NewAddr(objs) :
       PvMake(h, T, U, v, a)
  \/ \E h \in ActiveIn("polymorphic_value"), T, U \in Classes, D \in NewClasses :
       \E v \in CtorValues(D), a \in NewAddr(objs) :
         PvAllocatorCtor(h, T, U, D, v, a)
  \/ \E h \in ActiveIn("polymorphic_value"), T, U \in Classes :
       \E v \in CtorValues(U), a \in NewAddr(objs) :
       PvAllocate(h, T, U, v, a)
  \/ \E h, s \in ActiveIn("polymorphic_value") : PvCopyCtor(h, s)
  \/ \E h, s \in ActiveIn("polymorphic_value") : PvMoveCtor(h, s)
  \/ \E h, s \in ActiveIn("polymorphic_value"), T \in Classes : PvConvertingCopyCtor(h, s, T)
  \/ \E h, s \in ActiveIn("polymorphic_value"), T \in Classes : PvConvertingMoveCtor(h, s, T)
  \/ \E h, s \in ActiveIn("polymorphic_value") : PvCopyAssign(h, s)
  \/ \E h, s \in ActiveIn("polymorphic_value") : PvMoveAssign(h, s)
  \/ \E h, s \in ActiveIn("polymorphic_value") : PvSwap(h, s)
  \/ \E h \in ActiveIn("polymorphic_value") : PvDtor(h)


CallerNext ==
  \/ \E h \in Active, v \in Values : SetValue(h, v)
  \/ \E r \in raw : DeleteRaw(r)

Next == ClonedPtrNext \/ PolymorphicValueNext \/ CallerNext

Spec == Init /\ [][Next]_vars

\* ----- operations that fail with std::bad_alloc -------------------------
\* Spec is the program with memory to spare. SpecThrows adds the steps in
\* which an allocation (or the copy constructor of the object) throws. The
\* exception is not caught: the step is always recorded and ends the run.

\* where a failing operation throws: allocating or copy-constructing the
\* object, allocating the block that is to own it, allocating an adapter
FailPoints == {"object", "control_block", "adapter"}

\* allocated_pointer_control_block::clone without its catch clause: the
\* duplicate stays allocated when allocate_object of the block throws
clone_throws_leaking(cb, a, heap, f) ==
  IF f = "control_block" THEN clone_heap(cb, a, heap) ELSE heap

\* the heap after control_block<T>::clone() threw at point f, the
\* duplicate being made at address a. control_block_impl::clone runs
\* new U(*p_) as the argument of std::make_unique, so when make_unique
\* throws the duplicate exists and nothing owns it. Everywhere else the
\* heap is as before: a new-expression allocates the block before it
\* evaluates its initializer (pointer_control_block, direct_control_block,
\* delegating_control_block of polymorphic_value.h);
\* allocated_pointer_control_block::clone catches and deallocates the
\* duplicate; and a temporary unique_ptr destroys the inner clone when
\* std::make_unique of an adapter throws (cloned_ptr.h).
clone_throws_heap(cb, a, heap, f) ==
  IF f = "control_block" /\ cb[Len(cb)].k = "control_block_impl"
    THEN clone_heap(cb, a, heap)
    ELSE heap

\* the heap at the moment control_block<T>::clone() throws at point f: the
\* duplicate exists when the block that is to own it is allocated after it
\* (control_block_impl::clone, allocated_pointer_control_block::clone) and
\* when std::make_unique of an adapter throws after delegate_->clone()
\* returned (cloned_ptr.h); a new-expression allocates before it evaluates
\* its initializer, so the other blocks fail with no duplicate made
clone_throws_mid(cb, a, heap, f) ==
  LET k == cb[Len(cb)].k IN
  IF \/ f = "control_block"
          /\ k \in {"control_block_impl", "allocated_pointer_control_block"}
     \/ f = "adapter" /\ k = "control_block_impl"
    THEN clone_heap(cb, a, heap)
    ELSE heap

\* the failure points clone() has on chain cb
ClonePoints(cb) ==
  IF Len(cb) >= 2 THEN FailPoints ELSE {"object", "control_block"}

\* the record of a step that throws
Throws(op, h, src, ret) == Last(op, h, src, ret)

\* the same, heap being the heap at the moment of the throw, before the
\* handlers and destructors of the unwinding ran
ThrowsMid(op, h, src, ret, heap) ==
  [Last(op, h, src, ret) EXCEPT !.mid = heap]

\* copy constructor, p.cb_->clone() throws: no handle is built
CopyCtorThrows(h, s, f) ==
  /\ Running /\ ~handles[h].alive /\ handles[s].alive
  /\ LET p == handles[s] IN
     /\ op_bool(p) /\ ~copy_ctor_ub(p) /\ f \in ClonePoints(p.cb_)
     /\ \E a \in NewAddr(objs) :
          /\ objs' = clone_throws_heap(p.cb_, a, objs, f)
          /\ last' = ThrowsMid("copy_ctor_throws", h, s, nullptr,
                                clone_throws_mid(p.cb_, a, objs, f))
  /\ UNCHANGED <<lib, handles, raw, ub>>

\* a copy assignment that destroyed the chain it holds before cloning,
\* p.cb_->clone() throws
CopyAssignDestroyFirstThrows(h, s, f) ==
  /\ Running /\ handles[h].alive /\ handles[s].alive
  /\ handles[h].T = handles[s].T /\ h # s
  /\ LET p == handles[s]
         t == handles[h]
         heap1 == destroy_chain(t.cb_, objs)
     IN
     /\ op_bool(p) /\ ~copy_ctor_ub(p) /\ f \in ClonePoints(p.cb_)
     /\ handles' = [handles EXCEPT ![h] = Handle(t.T, nullptr, <<>>)]
     /\ \E a \in NewAddr(heap1) : objs' = clone_throws_heap(p.cb_, a, heap1, f)
  /\ last' = Throws("copy_assign_throws", h, s, nullptr)
  /\ UNCHANGED <<lib, raw, ub>>

\* operator=(const X& p), p.cb_->clone() throws: ptr_ and cb_ are assigned
\* only after clone() returned
CopyAssignThrows(h, s, f) ==
  /\ Running /\ handles[h].alive /\ handles[s].alive
  /\ handles[h].T = handles[s].T /\ ~same_object(h, s)
  /\ LET p == handles[s] IN
     /\ op_bool(p) /\ ~copy_ctor_ub(p) /\ f \in ClonePoints(p.cb_)
     /\ \E a \in NewAddr(objs) :
          /\ objs' = clone_throws_heap(p.cb_, a, objs, f)
          /\ last' = ThrowsMid("copy_assign_throws", h, s, nullptr,
                                clone_throws_mid(p.cb_, a, objs, f))
  /\ UNCHANGED <<lib, handles, raw, ub>>

\* cloned_ptr<T> h(new D(v)), std::make_unique<control_block_impl<T, U>>(u)
\* throws: nothing deletes u
PointerCtorThrows(h, T, U, D, v, a) ==
  /\ lib = "cloned_ptr" /\ Running /\ ~handles[h].alive
  /\ is_base_of(T, U) /\ is_base_of(U, D)
  /\ a \in NewAddr(objs) /\ D \in NewClasses
  /\ objs' = [objs EXCEPT ![a] = new_object(D, v)]
  /\ last' = Throws("pointer_ctor_throws", h, 0, pointer_to(a, U))
  /\ UNCHANGED <<lib, handles, raw, ub>>

\* polymorphic_value<T> h(new D(v), c, d), new pointer_control_block
\* throws: the local std::unique_ptr<U, D> p still owns u and deletes it
PvPointerCtorThrows(h, T, U, D, v, c, d, a) ==
  /\ lib = "polymorphic_value" /\ Running /\ ~handles[h].alive
  /\ is_base_of(T, U) /\ is_base_of(U, D)
  /\ a \in NewAddr(objs) /\ D \in NewClasses
  /\ ~bad_construction(U, c, d, new_object(D, v))
  /\ objs' = [[objs EXCEPT ![a] = new_object(D, v)] EXCEPT ![a] = NoObj]
  /\ last' = Throws("pointer_ctor_throws", h, 0, pointer_to(a, U))
  /\ UNCHANGED <<lib, handles, raw, ub>>

\* polymorphic_value<T> h(u, std::allocator_arg, alloc), allocate_object of
\* the control block throws: nothing deallocates u
PvAllocatorCtorThrows(h, T, U, D, v, a) ==
  /\ lib = "polymorphic_value" /\ Running /\ ~handles[h].alive
  /\ is_base_of(T, U) /\ is_base_of(U, D)
  /\ a \in NewAddr(objs) /\ D \in NewClasses
  /\ ~bad_allocator_construction(U, new_object(D, v))
  /\ objs' = [objs EXCEPT ![a] = new_object(D, v)]
  /\ last' = Throws("pointer_ctor_throws", h, 0, pointer_to(a, U))
  /\ UNCHANGED <<lib, handles, raw, ub>>

\* make_polymorphic_value<T, U>(v) and the in-place constructor, new
\* direct_control_block throws: the object was to be its member
PvMakeThrows(h, T, U, v, a) ==
  /\ lib = "polymorphic_value" /\ Running /\ ~handles[h].alive
  /\ is_base_of(T, U) /\ U \in NewClasses /\ a \in NewAddr(objs)
  /\ last' = Throws("make_throws", h, 0, nullptr)
  /\ UNCHANGED <<lib, handles, objs, raw, ub>>

\* allocate_polymorphic_value<T, U>(std::allocator_arg, alloc, v) throws:
\* in allocate_object<U> (which deallocates the memory it obtained), or in
\* allocate_object of the control block (the catch clause deallocates u)
PvAllocateThrows(h, T, U, v, a, f) ==
  /\ lib = "polymorphic_value" /\ Running /\ ~handles[h].alive
  /\ is_base_of(T, U) /\ U \in NewClasses /\ a \in NewAddr(objs)
  /\ f \in {"object", "control_block"}
  /\ objs' = IF f = "object" THEN objs
             ELSE [[objs EXCEPT ![a] = new_object(U, v)] EXCEPT ![a] = NoObj]
  /\ last' = ThrowsMid("allocate_throws", h, 0, nullptr,
                        IF f = "object" THEN objs
                        ELSE [objs EXCEPT ![a] = new_object(U, v)])
  /\ UNCHANGED <<lib, handles, raw, ub>>

ThrowsNext ==
  \/ \E h, s \in Active, f \in FailPoints : CopyCtorThrows(h, s, f)
  \/ \E h, s \in Active, f \in FailPoints : CopyAssignThrows(h, s, f)
  \/ \E h \in ActiveIn("cloned_ptr"), D \in NewClasses :
       \E T, U \in BasesOf(D), v \in CtorValues(D), a \in NewAddr(objs) :
         PointerCtorThrows(h, T, U, D, v, a)
  \/ \E h \in ActiveIn("polymorphic_value"), D \in NewClasses :
       \E T, U \in BasesOf(D), v \in CtorValues(D), a \in NewAddr(objs) :
         \E c \in Copiers, d \in Deleters :
           PvPointerCtorThrows(h, T, U, D, v, c, d, a)
  \/ \E h \in ActiveIn("polymorphic_value"), D \in NewClasses :
       \E T, U \in BasesOf(D), v \in CtorValues(D), a \in NewAddr(objs) :
         PvAllocatorCtorThrows(h, T, U, D, v, a)
  \/ \E h \in ActiveIn("polymorphic_value"), U \in NewClasses :
       \E T \in BasesOf(U), v \in CtorValues(U), a \in NewAddr(objs) :
         PvMakeThrows(h, T, U, v, a)
  \/ \E h \in ActiveIn("polymorphic_value"), U \in NewClasses :
       \E T \in BasesOf(U), v \in CtorValues(U), a \in NewAddr(objs) :
         \E f \in {"object", "control_block"} :
           PvAllocateThrows(h, T, U, v, a, f)

NextThrows == Next \/ ThrowsNext

SpecThrows == Init /\ [][NextThrows]_vars

\* ----- vocabulary of the claims -----------------------------------------
\* get()
get(h) == handles[h].ptr_

\* the handle is empty as its library reports it
IsEmpty(p) == ~op_bool(p)

\* the object the innermost block of handle h owns (nullptr if none)
Owned(h) == owned_pointer(handles[h].cb_)

\* ----- C1 ---------------------------------------------------------------
\* what claim C1 says of one copy construction: h is built from src
CopyPost(h, src) ==
  LET p == handles[src]
      g == handles'[h]
  IN
  /\ ub' = ub
  /\ handles'[src] = p
  /\ IF IsEmpty(p)
       THEN /\ g.ptr_ = nullptr /\ g.cb_ = <<>>
            /\ objs' = objs
       ELSE /\ g.ptr_ # nullptr /\ g.cb_ # <<>>
            /\ p.ptr_ # nullptr
            /\ g.ptr_.obj # p.ptr_.obj
            /\ objs'[g.ptr_.obj] = objs[p.ptr_.obj]
            /\ objs'[p.ptr_.obj] = objs[p.ptr_.obj]
            /\ object_count(objs') = object_count(objs) + 1

\* C1: copy construction (cloned_ptr and polymorphic_value): the copy of a
\* non-empty handle is non-empty, at another address, its object has the
\* same value, the source is unchanged and exactly one object is created;
\* the copy of an empty handle is empty and creates no object.
C1_CopyConstruction ==
  [][last'.op = "copy_ctor" => CopyPost(last'.h, last'.src)]_vars

\* ----- C2 ---------------------------------------------------------------
\* no two handles own or observe the same object, and no handle owns an
\* object whose raw pointer the caller holds
SingleOwner ==
  /\ \A h1, h2 \in Handles :
       h1 # h2 =>
         /\ Owned(h1) # nullptr => Owned(h1).obj # Owned(h2).obj
         /\ get(h1) # nullptr => get(h1).obj # get(h2).obj
  /\ \A h \in Handles, r \in raw : Owned(h).obj # r.obj

\* set_value through handle h changes no object another handle observes
SetValueIsolated(h) ==
  \A g \in Handles :
    g # h /\ get(g) # nullptr => objs'[get(g).obj] = objs[get(g).obj]

\* C2: single ownership: in every reachable state no two distinct handles
\* own the same object (or share a chain, which would own it twice), and
\* mutating the object of one handle changes the value seen through no
\* other handle.
C2_SingleOwnership ==
  /\ []SingleOwner
  /\ [][last'.op = "set_value" => SetValueIsolated(last'.h)]_vars

\* a handle was mutated to 99 while another handle still reports 7
C2_Witness ==
  /\ last.op = "set_value"
  /\ \E g \in Handles :
       /\ g # last.h /\ get(g) # nullptr /\ get(last.h) # nullptr
       /\ objs[get(last.h).obj].value_ = 99
       /\ objs[get(g).obj].value_ = 7

\* ----- C3 ---------------------------------------------------------------
\* what claim C3 says of one move construction: h is built from src
MovePost(h, src) ==
  /\ handles'[src].ptr_ = nullptr
  /\ IsEmpty(handles'[src])
  /\ handles'[h].ptr_ = handles[src].ptr_
  /\ objs' = objs
  /\ object_count(objs') = object_count(objs)

\* C3: move construction: the moved-from handle is empty (get() null,
\* boolean false), the new handle's address is the source's address before
\* the move, and no object is duplicated or destroyed.
C3_MoveConstruction ==
  [][last'.op = "move_ctor" => MovePost(last'.h, last'.src)]_vars

\* a handle was move-constructed from an owning handle
C3_Witness ==
  /\ last.op = "move_ctor"
  /\ get(last.h) # nullptr /\ objs[get(last.h).obj] # NoObj
  /\ get(last.src) = nullptr

\* ----- C4 ---------------------------------------------------------------
\* C4: self copy-assignment and self move-assignment are no-ops: the
\* handle (address, emptiness, chain), every object and the live-object
\* count are unchanged.
C4_SelfAssignment ==
  [][last'.op \in {"copy_assign", "move_assign"} /\ last'.h = last'.src =>
       /\ handles' = handles
       /\ objs' = objs
       /\ raw' = raw
       /\ ub' = ub]_vars

\* an owning handle was assigned to itself
C4_Witness ==
  /\ last.op \in {"copy_assign", "move_assign"}
  /\ last.h = last.src
  /\ get(last.h) # nullptr /\ objs[get(last.h).obj] # NoObj

\* ----- C5 ---------------------------------------------------------------
\* the objects alive on the heap
Live == {a \in Addrs : objs[a] # NoObj}

\* every raw pointer the caller holds points to a live object that no
\* handle owns or observes
ReleasedStaysAlive ==
  \A r \in raw :
    /\ r.obj \in Live
    /\ \A h \in Handles : Owned(h).obj # r.obj /\ get(h).obj # r.obj

\* every live object is owned by a handle or held by the caller, so that
\* destroying the handles and deleting the caller's pointers leaves none
Accounted ==
  Live = {Owned(h).obj : h \in {g \in Handles : Owned(g) # nullptr}}
           \cup {r.obj : r \in raw}

\* what claim C5 says of one release() on a non-empty handle h
ReleasePost(h) ==
  /\ last'.ret = handles[h].ptr_
  /\ handles'[h].ptr_ = nullptr
  /\ IsEmpty(handles'[h])
  /\ objs' = objs
  /\ raw' = raw \cup {last'.ret}
  /\ ub' = ub

\* C5: release() on a non-empty cloned_ptr, whatever adapters its chain
\* has, returns the address get() gave just before, leaves the handle
\* empty and destroys nothing; afterwards no handle owns the released
\* object, it stays alive until the caller deletes it, and every live
\* object is owned by a handle or held by the caller.
C5_ReleaseRoundTrip ==
  /\ [](lib = "cloned_ptr" => ReleasedStaysAlive /\ Accounted)
  /\ [][last'.op = "release" /\ handles[last'.h].ptr_ # nullptr
          => ReleasePost(last'.h)]_vars

\* release() returned the object of a handle made by a checked downcast
C5_Witness ==
  /\ last.op = "release"
  /\ last.ret # nullptr /\ last.ret \in raw
  /\ Len(handles[last.h].cb_) = 2
  /\ handles[last.h].cb_[1].k = "dynamic_casting_delegating_control_block"

\* ----- C6 ---------------------------------------------------------------
\* handle h would pass the guard of release() and call cb_->release(): the
\* chain is there, complete, and its innermost block still owns an object
ReleaseCallsLiveBlock(h) ==
  handles[h].alive /\ handles[h].ptr_ # nullptr =>
    /\ handles[h].cb_ # <<>>
    /\ ~null_deref(handles[h].cb_)
    /\ Owned(h) # nullptr

\* C6: release() on an empty cloned_ptr returns null and changes no state
\* (so a second release() returns null), and release() never calls
\* release() on an absent control block or on one already released.
C6_ReleaseEmpty ==
  /\ [](lib = "cloned_ptr" => \A h \in Handles : ReleaseCallsLiveBlock(h))
  /\ [][last'.op = "release" /\ handles[last'.h].ptr_ = nullptr
          => /\ last'.ret = nullptr
             /\ handles' = handles
             /\ objs' = objs
             /\ raw' = raw
             /\ ub' = ub]_vars

\* release() returned null on a handle whose chain was released before
C6_Witness ==
  /\ last.op = "release" /\ last.ret = nullptr
  /\ handles[last.h].cb_ # <<>>
  /\ handles[last.h].cb_[Len(handles[last.h].cb_)].k \in OwnerKinds
  /\ Owned(last.h) = nullptr
  /\ raw # {}

\* ----- C7 ---------------------------------------------------------------
\* the object p points to cannot be viewed as a T (or p is null)
Incompatible(p, T) == p = nullptr \/ ~is_base_of(T, objs[p.obj].dyn)

\* C7: a failing checked downcast is a value: dynamic_pointer_cast<T>(s)
\* on a handle that is empty or whose object's dynamic type is not
\* T-compatible returns an empty handle, duplicates nothing, does not
\* throw or crash, and leaves s unchanged and still owning its object.
C7_CheckedDowncastFails ==
  [][last'.op = "dynamic_pointer_cast"
       /\ Incompatible(handles[last'.src].ptr_, handles'[last'.h].T)
       => /\ handles'[last'.h].ptr_ = nullptr
          /\ handles'[last'.h].cb_ = <<>>
          /\ objs' = objs
          /\ handles'[last'.src] = handles[last'.src]
          /\ ub' = ub /\ raw' = raw]_vars

\* a handle on a Derived object was cast to Alt: the result is empty and
\* the source still owns its object
C7_Witness ==
  /\ last.op = "dynamic_pointer_cast"
  /\ handles[last.h].T = "Alt" /\ get(last.h) = nullptr
  /\ get(last.src) # nullptr
  /\ objs[get(last.src).obj].dyn = "Derived"
  /\ Owned(last.src) # nullptr

\* ----- C8 ---------------------------------------------------------------
\* what claim C8 says of one dynamic_pointer_cast<T> building h from src
DowncastPost(h, src) ==
  LET p == handles[src]
      g == handles'[h]
  IN
  /\ g.ptr_ # nullptr /\ g.cb_ # <<>>
  /\ g.ptr_.obj # p.ptr_.obj
  /\ objs'[g.ptr_.obj] = objs[p.ptr_.obj]
  /\ object_count(objs') = object_count(objs) + 1

\* C8: a checked downcast to the true concrete type succeeds: whenever the
\* object of s has a dynamic type compatible with T,
\* dynamic_pointer_cast<T>(s) returns a non-empty handle owning a fresh
\* duplicate with the same value, at another address, the live-object
\* count one higher.
C8_CheckedDowncastSucceeds ==
  [][last'.op = "dynamic_pointer_cast"
       /\ ~Incompatible(handles[last'.src].ptr_, handles'[last'.h].T)
       => DowncastPost(last'.h, last'.src)]_vars

\* ----- C9 ---------------------------------------------------------------
\* the casts and the converting copy, which take their source by const
\* reference
ConstSourceOps == {"static_pointer_cast", "dynamic_pointer_cast",
                   "const_pointer_cast", "converting_copy_ctor"}

\* C9: casts never mutate or move from their source: after a static,
\* dynamic or const pointer cast or a converting copy of handle s, s has
\* the same address, emptiness and chain, and its object the same value,
\* whether the cast succeeded or failed.
C9_CastsKeepSource ==
  [][last'.op \in ConstSourceOps =>
       /\ handles'[last'.src] = handles[last'.src]
       /\ \A a \in Addrs : objs[a] # NoObj => objs'[a] = objs[a]]_vars

\* a static downcast duplicated the object of its source, which still
\* holds the value set before the cast
C9_Witness ==
  /\ last.op = "static_pointer_cast"
  /\ get(last.h) # nullptr /\ get(last.src) # nullptr
  /\ get(last.h).obj # get(last.src).obj
  /\ objs[get(last.src).obj].value_ = 99
  /\ objs[get(last.h).obj].value_ = 99

\* ----- C10 --------------------------------------------------------------
\* the representation invariant of one handle
RepOk(p) ==
  /\ p.ptr_ = nullptr <=> p.cb_ = <<>>
  /\ p.cb_ # <<>> => ~null_deref(p.cb_) /\ p.ptr_ = ptr(p.cb_)

\* C10: handle representation invariant, in every reachable state of
\* cloned_ptr and polymorphic_value: ptr_ is null if and only if cb_ is
\* empty, and for a non-empty handle ptr_ equals cb_->ptr().
C10_RepInvariant == \A h \in Handles : handles[h].alive => RepOk(handles[h])

\* ----- C11 --------------------------------------------------------------
\* every object a handle owns is alive: nothing is destroyed while a
\* handle still owns it, and no destructor will delete it a second time
OwnedAlive == \A h \in Handles : Owned(h) # nullptr => Owned(h).obj \in Live

\* the operations that end the ownership of the object their handle owned
DestroyingOps == {"dtor", "reset", "copy_assign", "move_assign",
                  "converting_copy_assign", "converting_move_assign"}

\* the objects a step destroys are the one the handle operated on owned,
\* destroyed by one of the destroying operations, or the one the caller
\* deletes through its raw pointer
DestroyedByOwner ==
  \A a \in Live \ Live' :
    \/ last'.op \in DestroyingOps /\ Owned(last'.h).obj = a
    \/ last'.op = "delete" /\ last'.ret.obj = a

\* C11: exactly-once destruction: an object owned by a handle is alive as
\* long as the handle owns it, is destroyed only by the destruction, reset
\* or assignment of the handle that owns it (or by the caller's delete of a
\* released pointer), a moved or released object is not destroyed by the
\* handle that gave it up, and every live object is owned by a handle or
\* held by the caller, so that destroying all handles and deleting all
\* released pointers brings the live-object count back to its baseline.
C11_ExactlyOnceDestruction ==
  /\ [](OwnedAlive /\ Accounted /\ ReleasedStaysAlive)
  /\ [][last' # NoLast => DestroyedByOwner]_vars

\* a handle was move-assigned the object at address 2 while the object at
\* address 1, allocated before it, has been destroyed
C11_Witness ==
  /\ last.op = "move_assign" /\ last.h # last.src
  /\ get(last.h) # nullptr /\ get(last.h).obj = 2
  /\ Live = {2}
  /\ raw = {}

\* ----- C12 --------------------------------------------------------------
\* a copy assignment h = src between two distinct handles that both own
\* an object
OwningCopyAssign(h, src) ==
  /\ last'.op = "copy_assign" /\ h # src
  /\ Owned(h) # nullptr /\ ~IsEmpty(handles[h])
  /\ Owned(src) # nullptr /\ ~IsEmpty(handles[src])
  /\ ~ub'

\* C12 as the specification states it: in a = b, a's object is destroyed
\* first and b's object is duplicated afterwards, so that in the middle of
\* the assignment a's object is gone and the live-object count is not
\* above its value before the assignment.
C12_DestroyBeforeClone ==
  [][OwningCopyAssign(last'.h, last'.src) =>
       /\ last'.mid[Owned(last'.h).obj] = NoObj
       /\ object_count(last'.mid) <= object_count(objs)]_vars

\* C12 as the code has it: in a = b, b's object is duplicated first and
\* a's object is destroyed afterwards: in the middle of the assignment a's
\* object is still alive beside b's object and the duplicate (the
\* live-object count is one above its value before), and at the end a's
\* former object is destroyed and the count is back to that value.
C12_CloneBeforeDestroy ==
  [][OwningCopyAssign(last'.h, last'.src) =>
       /\ last'.mid[Owned(last'.h).obj] = objs[Owned(last'.h).obj]
       /\ last'.mid[Owned(last'.src).obj] = objs[Owned(last'.src).obj]
       /\ object_count(last'.mid) = object_count(objs) + 1
       /\ objs'[Owned(last'.h).obj] = NoObj
       /\ object_count(objs') = object_count(objs)]_vars

\* a copy assignment between two owning handles: three objects were alive
\* in its middle, two are at its end
C12_Witness ==
  /\ last.op = "copy_assign" /\ last.h # last.src
  /\ object_count(last.mid) = 3
  /\ object_count(objs) = 2
  /\ Owned(last.h) # nullptr /\ Owned(last.src) # nullptr

\* ----- C13 --------------------------------------------------------------
\* the operations that end with std::bad_alloc reaching the caller
ThrowOps == {"copy_ctor_throws", "copy_assign_throws", "pointer_ctor_throws",
             "make_throws", "allocate_throws"}

\* C13: strong exception safety of copy assignment: when the clone of the
\* source's object fails during a = b, a is exactly as before (same
\* address, same control block), its object is alive with the same value,
\* and b and its object are unchanged.
C13_CopyAssignStrongSafety ==
  [][last'.op = "copy_assign_throws" =>
       /\ handles'[last'.h] = handles[last'.h]
       /\ handles'[last'.src] = handles[last'.src]
       /\ \A a \in Live : objs'[a] = objs[a]
       /\ raw' = raw /\ ub' = ub]_vars

\* the clone failed in a copy assignment between two owning handles,
\* which both still own their live objects
C13_Witness ==
  /\ last.op = "copy_assign_throws"
  /\ Owned(last.h) # nullptr /\ Owned(last.h).obj \in Live
  /\ get(last.h) # nullptr
  /\ Owned(last.src) # nullptr /\ Owned(last.src).obj \in Live
  /\ Owned(last.h).obj # Owned(last.src).obj

\* ----- C14 --------------------------------------------------------------
\* C14: no leak on failure: when an allocation or duplication step fails
\* during construction from a pointer, copy, clone or in-place or
\* allocator construction, every object the failed attempt allocated or
\* adopted is released before the error reaches the caller: the live
\* objects, and their count, are those from before the attempt.
C14_NoLeakOnFailure ==
  [][last'.op \in ThrowOps =>
       /\ Live' = Live
       /\ object_count(objs') = object_count(objs)]_vars

\* ----- C15 --------------------------------------------------------------
\* the innermost block of handle p is bound to the dynamic type of the
\* object it owns in heap: U of control_block_impl<T, U>,
\* pointer_control_block<T, U, C, D> and the others is the class of *p_
BoundToDynamicType(p, heap) ==
  p.cb_ # <<>> =>
    LET b == p.cb_[Len(p.cb_)] IN
    b.p_ # nullptr => heap[b.p_.obj].dyn = b.U

\* C15: type mismatch at construction is fatal: a constructor taking a
\* non-null raw pointer whose static type differs from the dynamic type of
\* its object never completes, whatever copier and deleter it is given: a
\* pointer constructor that completed left a handle whose control block is
\* bound to the dynamic type of the object.
C15_TypeMismatchFatal ==
  [][last'.op = "pointer_ctor" =>
       BoundToDynamicType(handles'[last'.h], objs')]_vars

\* ----- C16 --------------------------------------------------------------
\* the address a pointer holds, as a number (0 for the null pointer)
address(q) == q.obj

\* C16: comparisons: for any two handles a and b each of ==, !=, <, <=, >,
\* >= returns the result of the same comparison of the raw addresses
\* a.get() and b.get().
C16_ComparisonsMatchAddresses ==
  [][last'.op = "compare" =>
       \A o \in CompareOps :
         last'.res[o] = builtin_compare(o, address(get(last'.h)),
                                           address(get(last'.src)))]_vars

\* ----- C17 --------------------------------------------------------------
\* what claim C17 says of one move assignment h = std::move(src), h # src;
\* h was owning when its chain owned an object
MoveAssignPost(h, src) ==
  LET t == handles[h]
      p == handles[src]
  IN
  /\ handles'[h].ptr_ = p.ptr_
  /\ handles'[src].ptr_ = nullptr /\ IsEmpty(handles'[src])
  /\ ub' = ub
  /\ IF Owned(h) # nullptr
       THEN /\ objs[Owned(h).obj] # NoObj
            /\ objs' = [objs EXCEPT ![Owned(h).obj] = NoObj]
            /\ object_count(objs') = object_count(objs) - 1
       ELSE /\ objs' = objs
            /\ object_count(objs') = object_count(objs)

\* C17: move assignment a = move(b) of distinct handles of one type:
\* afterwards a.get() is b's address before the assignment (null if b was
\* empty), b is empty, the object a held (if any) has been destroyed, once,
\* and nothing was duplicated: the live-object count drops by one if a was
\* owning and is otherwise unchanged.
C17_MoveAssignment ==
  [][last'.op = "move_assign" /\ last'.h # last'.src =>
       MoveAssignPost(last'.h, last'.src)]_vars

\* an owning handle was move-assigned from another owning handle: it now
\* holds the source's object, its own is gone
C17_Witness ==
  /\ last.op = "move_assign" /\ last.h # last.src
  /\ get(last.h) # nullptr /\ get(last.src) = nullptr
  /\ Owned(last.h) # nullptr /\ Owned(last.src) = nullptr
  /\ Live = {get(last.h).obj} /\ get(last.h).obj = 2

\* ----- C18 --------------------------------------------------------------
\* what claim C18 says of one h.reset(u): when u is the address h holds
\* nothing happens; otherwise h is as after the move assignment of a handle
\* freshly built over u: it holds u and owns it (it is empty when u is
\* null), the object it owned is destroyed, every other object and handle
\* is as before
ResetPost(h, u) ==
  LET t == handles[h]
      g == handles'[h]
  IN
  /\ ub' = ub
  /\ \A f \in Handles \ {h} : handles'[f] = handles[f]
  /\ IF address(u) = address(t.ptr_)
       THEN /\ g = t
            /\ objs' = objs
       ELSE /\ address(g.ptr_) = address(u)
            /\ g.ptr_ = nullptr \/ g.ptr_.view = t.T
            /\ owned_pointer(g.cb_) = u
            /\ u = nullptr => IsEmpty(g)
            /\ u # nullptr => ~IsEmpty(g) /\ objs'[u.obj] # NoObj
            /\ Owned(h) # nullptr => objs'[Owned(h).obj] = NoObj
            /\ \A a \in Live \ {Owned(h).obj} : objs'[a] = objs[a]
            /\ Live' = (Live \ {Owned(h).obj}) \cup ({u.obj} \ {0})

\* C18: reset(P) on cloned_ptr, for every handle state and every P: the
\* state afterwards is that of move-assigning a handle freshly constructed
\* over P (old object destroyed, handle owns P, or is empty when P is
\* null); when P is the address currently held (P null on an empty handle
\* included) reset is a no-op that destroys nothing and leaves address and
\* object unchanged.
C18_Reset ==
  [][last'.op = "reset" => ResetPost(last'.h, last'.ret)]_vars

\* an owning handle was reset to a new object: the old one is gone
C18_Witness ==
  /\ last.op = "reset" /\ last.ret # nullptr
  /\ Owned(last.h) = last.ret /\ get(last.h).obj = 2
  /\ Live = {2}

\* ----- C19 --------------------------------------------------------------
\* the state of a handle variable: Owning when its control block owns an
\* object, Empty otherwise (also before its construction and after its
\* destruction)
State(p) ==
  IF p.alive /\ owned_pointer(p.cb_) # nullptr THEN "Owning" ELSE "Empty"

\* the step changed the state of handle g, or the object it owns
Changed(g) ==
  \/ State(handles'[g]) # State(handles[g])
  \/ /\ State(handles[g]) = "Owning"
     /\ owned_pointer(handles'[g].cb_).obj # owned_pointer(handles[g].cb_).obj

\* the part handle g had in the recorded step
Role(g) == IF g = last'.h THEN "target" ELSE
           IF g = last'.src THEN "source" ELSE "none"

\* the transition of handle g in the recorded step
Transition(g) ==
  <<last'.op, Role(g), State(handles[g]), State(handles'[g])>>

CopyOps == {"copy_ctor", "converting_copy_ctor", "copy_assign",
            "converting_copy_assign", "static_pointer_cast",
            "const_pointer_cast"}

MoveOps == {"move_ctor", "converting_move_ctor", "move_assign",
            "converting_move_assign"}

AssignOps == {"copy_assign", "converting_copy_assign", "move_assign",
              "converting_move_assign"}

ConstructOps == {"pointer_ctor", "make_polymorphic_value",
                 "allocate_polymorphic_value"}

\* the transitions claim C19 lists, construction, copy and move read to
\* include the factories, the conversions and the unchecked casts, and an
\* overwrite to include reset to another object
ListedTransitions ==
  {<<o, "target", "Empty", "Owning">> :
     o \in ConstructOps \cup CopyOps \cup MoveOps
             \cup {"dynamic_pointer_cast", "reset"}}
  \cup {<<o, "target", "Owning", "Empty">> : o \in {"release", "reset", "dtor"}}
  \cup {<<o, "source", "Owning", "Empty">> : o \in MoveOps}
  \cup {<<o, "target", "Owning", "Owning">> : o \in AssignOps \cup {"reset"}}

\* the transitions the list leaves out: an assignment from an empty source
\* empties its target, and swap exchanges the states of its two handles
UnlistedTransitions ==
  {<<o, "target", "Owning", "Empty">> : o \in AssignOps}
  \cup {<<"swap", r, f, t>> :
          r \in {"target", "source"}, f, t \in {"Empty", "Owning"}}

UpcastCopyOps == {"converting_copy_ctor", "converting_copy_assign"}

UpcastMoveOps == {"converting_move_ctor", "converting_move_assign"}

\* the objects alive once the target of an assignment gave up its own
Kept(h) == Live \ {Owned(h).obj}

\* what claim C20 says of a conversion from the lvalue src to h
UpcastCopyPost(h, src) ==
  LET p == handles[src]
      g == handles'[h]
  IN
  /\ ub' = ub
  /\ handles'[src] = p
  /\ \A a \in Kept(h) : objs'[a] = objs[a]
  /\ IF IsEmpty(p)
       THEN Live' = Kept(h)
       ELSE /\ ~IsEmpty(g) /\ g.ptr_ # nullptr
            /\ g.ptr_.view = g.T
            /\ g.ptr_.obj \notin Live
            /\ owned_pointer(g.cb_) # nullptr
            /\ owned_pointer(g.cb_).obj = g.ptr_.obj
            /\ objs'[g.ptr_.obj] = objs[p.ptr_.obj]
            /\ Live' = Kept(h) \cup {g.ptr_.obj}

\* what claim C20 says of a conversion from the rvalue src to h
UpcastMovePost(h, src) ==
  LET p == handles[src]
      g == handles'[h]
  IN
  /\ ub' = ub
  /\ handles'[src].ptr_ = nullptr /\ IsEmpty(handles'[src])
  /\ \A a \in Kept(h) : objs'[a] = objs[a]
  /\ Live' = Kept(h)
  /\ address(g.ptr_) = address(p.ptr_)
  /\ owned_pointer(g.cb_) = owned_pointer(p.cb_)
  /\ ~IsEmpty(p) =>
       /\ ~IsEmpty(g) /\ g.ptr_ # nullptr
       /\ g.ptr_.view = g.T
       /\ is_base_of(g.T, objs'[g.ptr_.obj].dyn)

\* C20: upcast conversion from Handle<U> to Handle<T>, U derived from T, by
\* construction or assignment: from an lvalue the source is unchanged and
\* the result owns a fresh duplicate of the source's object (one more live
\* object); from an rvalue the source becomes empty, nothing is duplicated
\* and the result refers to the very object the source held; either way
\* the result sees the same object state through the base view and is
\* non-empty whenever the source was.
C20_UpcastConversion ==
  /\ [][last'.op \in UpcastCopyOps => UpcastCopyPost(last'.h, last'.src)]_vars
  /\ [][last'.op \in UpcastMoveOps => UpcastMovePost(last'.h, last'.src)]_vars

\* ----- C21 --------------------------------------------------------------
\* what claim C21 says of one copy assignment h = src, h # src
CopyAssignPost(h, src) ==
  LET t == handles[h]
      p == handles[src]
      g == handles'[h]
  IN
  /\ ub' = ub
  /\ handles'[src] = p
  /\ \A a \in Kept(h) : objs'[a] = objs[a]
  /\ Owned(h) # nullptr => objs'[Owned(h).obj] = NoObj
  /\ IsEmpty(g) <=> IsEmpty(p)
  /\ IF IsEmpty(p)
       THEN /\ g.ptr_ = nullptr
            /\ Live' = Kept(h)
       ELSE /\ g.ptr_ # nullptr /\ p.ptr_ # nullptr
            /\ g.ptr_.obj # p.ptr_.obj
            /\ g.ptr_.obj \notin Live
            /\ objs'[g.ptr_.obj] = objs[p.ptr_.obj]
            /\ Live' = Kept(h) \cup {g.ptr_.obj}
  /\ object_count(objs') =
       object_count(objs) + (IF IsEmpty(p) THEN 0 ELSE 1)
                          - (IF Owned(h) # nullptr THEN 1 ELSE 0)

\* C21: copy assignment a = b for distinct handles, in all four
\* Empty/Owning combinations: b is unchanged (same address and value);
\* afterwards a is empty if and only if b is empty; when b is owning, a
\* holds a duplicate at an address different from b's with the same value;
\* a's previous object is destroyed; the live-object count changes by (1 if
\* b owning else 0) minus (1 if a was owning else 0).
C21_CopyAssignment ==
  [][last'.op = "copy_assign" /\ last'.h # last'.src =>
       CopyAssignPost(last'.h, last'.src)]_vars

\* ----- C22 --------------------------------------------------------------
\* the adaptation chain without its pointers: the kind of each block, the
\* classes it is instantiated with and the copier and deleter it is bound to
Shape(cb) ==
  [i \in 1..Len(cb) |->
     [k |-> cb[i].k, T |-> cb[i].T, U |-> cb[i].U, c |-> cb[i].c,
      d |-> cb[i].d]]

\* handle p holds an object through a chain whose innermost block was
\* constructed over an object of the class U it is bound to
BuiltOverU(p) ==
  /\ ~IsEmpty(p) /\ p.ptr_ # nullptr
  /\ owned_pointer(p.cb_) # nullptr
  /\ BoundToDynamicType(p, objs)

\* the operations that copy a handle with clone() and add no adapter
PlainCopyOps == {"copy_ctor", "copy_assign"}

\* the adapter each cast or conversion puts around the chain
AdapterOf(op) ==
  CASE op \in UpcastCopyOps \cup UpcastMoveOps -> "delegating_control_block"
    [] op = "static_pointer_cast" -> "downcasting_delegating_control_block"
    [] op = "dynamic_pointer_cast" ->
         "dynamic_casting_delegating_control_block"
    [] op = "const_pointer_cast" -> "const_casting_delegating_control_block"

AdaptingOps == UpcastCopyOps \cup UpcastMoveOps
                 \cup {"static_pointer_cast", "dynamic_pointer_cast",
                       "const_pointer_cast"}

\* the chain of g is a clone of the chain of p: same blocks in the same
\* order, the duplicate of the class the innermost block is bound to
ClonedChain(g, p) ==
  /\ Shape(g.cb_) = Shape(p.cb_)
  /\ owned_pointer(g.cb_) # nullptr
  /\ owned_pointer(g.cb_).obj # owned_pointer(p.cb_).obj
  /\ objs'[owned_pointer(g.cb_).obj].dyn = p.cb_[Len(p.cb_)].U
  /\ objs'[owned_pointer(g.cb_).obj].dyn = objs[owned_pointer(p.cb_).obj].dyn

Blocks(cb) == {SubSeq(cb, i, Len(cb)) : i \in 1..Len(cb)}

\* block b (a chain from b inwards) can neither locate nor destroy the
\* object at address a: ptr() does not yield a, the destructor leaves it
Forgotten(b, a, heap) ==
  /\ ptr(b).obj # a
  /\ owned_pointer(b) = nullptr
  /\ destroy_chain(b, heap)[a] = heap[a]

\* release() on handle h, which held an object, released its chain
ReleasedChainPost(h, r) ==
  LET before == handles[h].cb_
      after  == handles'[h].cb_
  IN  /\ r = release_value(before)
      /\ before[1].k = "dynamic_casting_delegating_control_block"
           => r = before[1].p_
      /\ objs'[r.obj] = objs[r.obj] /\ objs'[r.obj] # NoObj
      /\ Len(after) = Len(before)
      /\ \A b \in Blocks(after) : Forgotten(b, r.obj, objs')

\* C23: control-block release(), for control_block_impl and the upcast,
\* static-downcast, checked-downcast and const adapters nested in any order:
\* after release() no block of the chain can locate or destroy the released
\* object (its ptr() no longer yields the object's address, its destructor
\* does not delete the object); the checked-downcast adapter releases the
\* inner block's ownership and returns its cached checked pointer.
C23_ReleasedBlockForgets ==
  [][last'.op = "release" /\ last'.ret # nullptr
       => ReleasedChainPost(last'.h, last'.ret)]_vars

\* the same, with the ptr() clause asked of every block that is not under a
\* checked-downcast adapter's cached pointer
C23_ExceptCachedPointer ==
  [][last'.op = "release" /\ last'.ret # nullptr
       => LET after == handles'[last'.h].cb_ IN
          \A b \in Blocks(after) :
            /\ owned_pointer(b) = nullptr
            /\ destroy_chain(b, objs')[last'.ret.obj]
                 = objs'[last'.ret.obj]
            /\ (\A i \in 1..Len(b) :
                  b[i].k # "dynamic_casting_delegating_control_block")
                 => ptr(b) = nullptr]_vars

\* ----- C24 --------------------------------------------------------------
\* the innermost block of the chain of handle p is the allocator-aware one
AllocatorAware(p) ==
  p.cb_ # <<>> /\ p.cb_[Len(p.cb_)].k = "allocated_pointer_control_block"

\* the failing step is one of the allocator-aware path:
\* allocate_polymorphic_value, or a copy whose clone() reaches
\* allocated_pointer_control_block::clone
AllocatorPathThrows ==
  \/ last'.op = "allocate_throws"
  \/ /\ last'.op \in {"copy_ctor_throws", "copy_assign_throws"}
     /\ AllocatorAware(handles[last'.src])

\* the addresses obtained by the failing operation before it failed
Obtained == {a \in Addrs : last'.mid[a] # objs[a]}

NoNullLink(p) ==
  op_bool(p) => p.ptr_ # nullptr /\ ~null_deref(p.cb_)

\* C25: polymorphic_value never clones or dereferences through a null
\* link: in every reachable state, whenever operator bool reports true the
\* observer pointer is non-null and every adapter in the control-block
\* chain has a non-null inner block, so that no copy construction or copy
\* assignment calls clone() on a delegating_control_block whose delegate_
\* is null, handles made by converting copy or move construction from an
\* empty polymorphic_value<U> included.
C25_NoNullLink ==
  lib = "polymorphic_value"
    => /\ ~ub
       /\ \A h \in 1..NumHandles : handles[h].alive => NoNullLink(handles[h])

\* the same, for the undefined behaviour alone
C25_NoCloneThroughNull == lib = "polymorphic_value" => ~ub

====
